---- MODULE Spec2Model ----
(***************************************************************************)
(* State-machine model of src/src/lib/whatsappService.ts:                  *)
(*   - the connection manager (clientState, initializeWhatsAppWebClient,   *)
(*     its event handlers and timers, disconnectWhatsAppWeb,               *)
(*     resetConnectionAttempts), specification Spec;                       *)
(*   - the batch dispatcher (sendMessagesBatch over sendMessage and the    *)
(*     two delivery backends), specification BatchSpec.                    *)
(* Every await of the source is a step boundary: what runs between two     *)
(* awaits is one atomic action, and other handlers may run in between.     *)
(***************************************************************************)
EXTENDS Integers, Sequences, FiniteSets, Bags, TLC

\* ---------------------------------------------------------------- bounds
MAX_CONNECTION_ATTEMPTS == 3
\* initialize() invocations that may be suspended at an await at once
MaxCalls == 1
\* live Client objects that no handle and no invocation refers to any more
MaxLost == 0
\* startup-timeout timers left armed by invocations that already returned
MaxStaleTimers == 1
\* reconnect timers pending at once
MaxReconnects == 1
\* session-cleanup timers pending at once
MaxCleanups == 1
\* contacts in a batch run
MaxContacts == 2
\* largest batchSize argument
MaxBatchSize == 2
\* largest maxRetries argument
MaxRetries == 2
\* longest phone string formatted
MaxPhoneLen == 11

Min(a, b) == IF a < b THEN a ELSE b

\* ----------------------------------------------------------------- state
\* A Client object is known by what the transport has done with it:
\*   "starting"  constructed, handlers registered, not yet ready
\*   "ready"     has emitted ready
\*   "failed"    has emitted auth_failure
\*   "closed"    destroyed, or has emitted disconnected: it emits no more
VARIABLES
    client,              \* clientState.client: "null", or the state of the
                         \* Client object the handle refers to
    isReady,             \* clientState.isReady
    isConnecting,        \* clientState.isConnecting
    currentQR,           \* clientState.currentQR ("null" or a payload)
    lastError,           \* clientState.lastError ("null" or a message)
    connectionAttempts,  \* clientState.connectionAttempts
    calls,               \* the suspended initialize() invocations, a bag of
                         \* [pc, obj, timer]: the await it is at, the Client
                         \* object it constructed, whether its timer is armed
    lost,                \* live Client objects nothing refers to, per state
    dpc,                 \* the disconnect() invocation: "idle" or "destroy"
    staleTimers,         \* armed startup timers whose invocation has returned
    reconnects,          \* pending reconnect timers (disconnected handler)
    globalQR,            \* global.currentQRCode ("null" or a payload)
    cleanups,            \* pending session-cleanup timers (auth_failure handler)
    last                 \* history: the handler that ran last and its outcome

connVars == <<client, isReady, isConnecting, currentQR, lastError,
              connectionAttempts, calls, lost, dpc, staleTimers, reconnects, globalQR,
              cleanups, last>>

\* the six fields of clientState
clientState == <<client, isReady, isConnecting, currentQR, lastError, connectionAttempts>>

\* The locals of the sendMessagesBatch invocation (lines 347-439).
VARIABLES
    contacts,            \* the contact list, as the sequence of the contacts' ids
    batchSize,           \* parameter batchSize
    maxRetries,          \* parameter maxRetries
    batches,             \* the contact list split into batches
    results,             \* the results array
    batchIndex,          \* index of the batch being processed (from 0)
    contactIndex,        \* index of the contact within its batch (from 0)
    attempts,            \* send attempts made for the current contact
    success,             \* whether the current contact has been delivered to
    batchLastError,      \* the local lastError: the error of the last attempt
    summary,             \* the summary returned
    bpc,                 \* where the invocation is
    sends,               \* history: the send attempts made, in order, each
                         \* [contactId, success, error, ready]: ready says
                         \* whether a ready session was there at the attempt
    transportCalls,      \* history: transport and network calls made
    waits,               \* history: delays sat out, per kind
    pause                \* history: delays sat out since the last send attempt

\* One formatPhoneNumber call (lines 231-241); strings are sequences of
\* characters.
VARIABLES
    phone,               \* the argument
    formatted,           \* the value returned, once fpc = "done"
    fpc                  \* "idle" before the call, "done" after it

formatVars == <<phone, formatted, fpc>>

\* The process environment the backends read (lines 250-251, 447); a variable
\* is TRUE when it is set (useBusinessAPI: when it is the string 'true').
VARIABLES
    useBusinessAPI,      \* process.env.USE_WHATSAPP_BUSINESS_API === 'true'
    accessToken,         \* process.env.WHATSAPP_ACCESS_TOKEN is set
    phoneNumberId        \* process.env.PHONE_NUMBER_ID is set

envVars == <<useBusinessAPI, accessToken, phoneNumberId>>

batchVars == <<contacts, batchSize, maxRetries, batches, results, batchIndex,
               contactIndex, attempts, success, batchLastError, summary, bpc,
               sends, transportCalls, waits, pause, envVars>>

\* The history variable records the handler that ran last and how it ended, for
\* the handlers and outcomes the properties below speak of; every other step
\* is recorded as an anonymous step.
Observed ==
    {<<"none", "none">>,
     <<"initialize", "noop">>, <<"initialize", "exhausted">>, <<"initialize", "started">>,
     <<"initialize", "rejected">>,
     <<"reconnect", "noop">>, <<"reconnect", "exhausted">>, <<"reconnect", "started">>,
     <<"disconnect", "returned">>, <<"timeout", "abandoned">>, <<"ready", "none">>}

Op(o, r) == IF <<o, r>> \in Observed THEN [op |-> o, res |-> r]
                                     ELSE [op |-> "step", res |-> "none"]

\* ------------------------------------------------- bags of invocations
NumCalls(cs) == BagCardinality(cs)
AddCall(cs, r) == cs (+) SetToBag({r})
RemoveCall(cs, r) == cs (-) SetToBag({r})
ReplaceCall(cs, r, r2) == AddCall(RemoveCall(cs, r), r2)

Alive == {"starting", "ready"}

\* obj of an invocation: "none" before it has constructed its Client object and
\* after that object is gone, "current" while clientState.client refers to the
\* object, and the object's own state once the handle refers elsewhere.
Owners(cs) == {r \in BagToSet(cs) : r.obj = "current"}

\* the state of the Client object whose initialize() invocation r awaits
Awaited(r) == IF r.obj = "current" THEN client ELSE r.obj

\* The handle stops referring to its object (it is nulled or reassigned): an
\* invocation that awaits the object keeps it; a live object nobody awaits is
\* lost (it still emits events); a dead one is garbage.
DetachCalls(cs, x) ==
    IF Owners(cs) = {} THEN cs
    ELSE LET r == CHOOSE o \in Owners(cs) : TRUE
         IN ReplaceCall(cs, r, [r EXCEPT !.obj = x])

Lose(l, x) ==
    IF x \in Alive /\ l["starting"] + l["ready"] < MaxLost
    THEN [l EXCEPT ![x] = @ + 1] ELSE l

DetachLost(cs, x, l) == IF Owners(cs) = {} THEN Lose(l, x) ELSE l

ConnInit ==
    /\ client = "null"
    /\ isReady = FALSE
    /\ isConnecting = FALSE
    /\ currentQR = "null"
    /\ lastError = "null"
    /\ connectionAttempts = 0
    /\ calls = EmptyBag
    /\ lost = [x \in Alive |-> 0]
    /\ dpc = "idle"
    /\ staleTimers = 0
    /\ reconnects = 0
    /\ globalQR = "null"
    /\ cleanups = 0
    /\ last = Op("none", "none")

\* variant: the in-progress guard never fires
AlreadyConnecting_Never == FALSE

\* ------------------------------------------------ initializeWhatsAppWebClient
\* line 72
AlreadyConnecting == isConnecting
\* line 78
AlreadyReady == client # "null" /\ isReady
\* variant: the ceiling is compared with > instead of >=
AttemptsExhausted_OffByOne == connectionAttempts > MAX_CONNECTION_ATTEMPTS

\* line 84
AttemptsExhausted == connectionAttempts >= MAX_CONNECTION_ATTEMPTS

\* lines 105-206, run by an invocation whose startup timer is not armed yet,
\* the other invocations being cs: new Client assigned to the handle, handlers
\* registered, startup timer armed, client.initialize() called and awaited
OpenSession(cs) ==
    /\ client' = "starting"
    /\ calls' = AddCall(DetachCalls(cs, client), [pc |-> "init", obj |-> "current", timer |-> TRUE])
    /\ lost' = DetachLost(cs, client, lost)

\* lines 70-103: from the call to the first await
InitializeEntry(by) ==
    IF AlreadyConnecting \/ AlreadyReady
    THEN /\ last' = Op(by, "noop")
         /\ UNCHANGED <<clientState, calls, lost>>
    ELSE IF AttemptsExhausted
    THEN /\ last' = Op(by, "exhausted")
         /\ UNCHANGED <<clientState, calls, lost>>
    ELSE /\ NumCalls(calls) < MaxCalls
         /\ isConnecting' = TRUE
         /\ connectionAttempts' = connectionAttempts + 1
         /\ lastError' = "null"
         /\ currentQR' = "null"
         /\ last' = Op(by, "started")
         /\ UNCHANGED isReady
         /\ IF client # "null"
            THEN \* line 97: await clientState.client.destroy()
                 /\ client' = "closed"
                 /\ calls' = AddCall(calls, [pc |-> "destroyOld", obj |-> "none", timer |-> FALSE])
                 /\ UNCHANGED lost
            ELSE OpenSession(calls)

\* an operator (the API route layer) calls initialize()
Initialize ==
    /\ InitializeEntry("initialize")
    /\ UNCHANGED <<dpc, staleTimers, reconnects>>
    /\ UNCHANGED globalQR
    /\ UNCHANGED cleanups
    /\ UNCHANGED <<batchVars, formatVars>>

\* lines 101-206: the await of line 97 is over
AfterDestroyOld(r) ==
    /\ r.pc = "destroyOld"
    /\ isReady' = FALSE
    /\ OpenSession(RemoveCall(calls, r))
    /\ last' = Op("initialize", "opening")
    /\ UNCHANGED <<isConnecting, currentQR, lastError, connectionAttempts,
                   dpc, staleTimers, reconnects>>
    /\ UNCHANGED globalQR
    /\ UNCHANGED cleanups
    /\ UNCHANGED <<batchVars, formatVars>>

\* an invocation returns: its startup timer, if still armed, stays behind
LeftBehind(r) == IF r.timer THEN Min(staleTimers + 1, MaxStaleTimers) ELSE staleTimers

\* lines 206-209: client.initialize() resolves, the timer is cleared
InitResolve(r) ==
    /\ r.pc = "init"
    /\ Awaited(r) \in {"starting", "ready", "failed"}
    /\ calls' = RemoveCall(calls, r)
    /\ lost' = IF r.obj = "current" THEN lost ELSE Lose(lost, r.obj)
    /\ last' = Op("initialize", "resolved")
    /\ UNCHANGED <<clientState, dpc, staleTimers, reconnects>>
    /\ UNCHANGED globalQR
    /\ UNCHANGED cleanups
    /\ UNCHANGED <<batchVars, formatVars>>

\* lines 211-227: client.initialize() rejects; the object it was called on is
\* dead from then on
InitReject(r) ==
    /\ r.pc = "init"
    /\ Awaited(r) \in {"starting", "failed", "closed"}
    /\ lastError' = "init error"
    /\ isConnecting' = FALSE
    /\ isReady' = FALSE
    /\ UNCHANGED <<currentQR, connectionAttempts, lost, dpc, reconnects>>
    /\ IF client # "null"
       THEN \* line 219: await clientState.client.destroy()
            /\ client' = "closed"
            /\ calls' = ReplaceCall(calls, r, [r EXCEPT !.pc = "catchDestroy", !.obj = "none"])
            /\ last' = Op("initialize", "catching")
            /\ UNCHANGED staleTimers
       ELSE \* line 226: throw error
            /\ calls' = RemoveCall(calls, r)
            /\ staleTimers' = LeftBehind(r)
            /\ last' = Op("initialize", "rejected")
            /\ UNCHANGED client
    /\ UNCHANGED globalQR
    /\ UNCHANGED cleanups
    /\ UNCHANGED <<batchVars, formatVars>>

\* lines 223-226: the await of line 219 is over
AfterCatchDestroy(r) ==
    /\ r.pc = "catchDestroy"
    /\ client' = "null"
    /\ calls' = DetachCalls(RemoveCall(calls, r), client)
    /\ lost' = DetachLost(RemoveCall(calls, r), client, lost)
    /\ staleTimers' = LeftBehind(r)
    /\ last' = Op("initialize", "rejected")
    /\ UNCHANGED <<isReady, isConnecting, currentQR, lastError, connectionAttempts,
                   dpc, reconnects>>
    /\ UNCHANGED globalQR
    /\ UNCHANGED cleanups
    /\ UNCHANGED <<batchVars, formatVars>>

\* lines 192-203: the callback of the startup timer, the suspended invocations
\* being cs
TimeoutHandler(cs) ==
    IF isConnecting
    THEN /\ lastError' = "Connection timeout"
         /\ isConnecting' = FALSE
         /\ client' = "null"
         /\ calls' = DetachCalls(cs, IF client = "null" THEN "null" ELSE "closed")
         /\ last' = Op("timeout", "abandoned")
    ELSE /\ last' = Op("timeout", "ignored")
         /\ calls' = cs
         /\ UNCHANGED <<lastError, isConnecting, client>>

\* the startup timer of an invocation that is still suspended fires
TimeoutFire(r) ==
    /\ r.timer
    /\ TimeoutHandler(ReplaceCall(calls, r, [r EXCEPT !.timer = FALSE]))
    /\ UNCHANGED <<isReady, currentQR, connectionAttempts, lost, dpc, staleTimers, reconnects>>
    /\ UNCHANGED globalQR
    /\ UNCHANGED cleanups
    /\ UNCHANGED <<batchVars, formatVars>>

\* the startup timer of an invocation that has returned fires
StaleTimeoutFire ==
    /\ staleTimers > 0
    /\ staleTimers' = staleTimers - 1
    /\ TimeoutHandler(calls)
    /\ UNCHANGED <<isReady, currentQR, connectionAttempts, lost, dpc, reconnects>>
    /\ UNCHANGED globalQR
    /\ UNCHANGED cleanups
    /\ UNCHANGED <<batchVars, formatVars>>

\* ------------------------------------------------------------ event handlers
\* QR payloads the transport may emit
QRPayloads == {"qr1"}

\* lines 135-144
QrHandler(qr) ==
    /\ currentQR' = qr
    /\ globalQR' = qr
    /\ UNCHANGED <<isReady, isConnecting, lastError, connectionAttempts>>

\* lines 146-153
ReadyHandler ==
    /\ isReady' = TRUE
    /\ isConnecting' = FALSE
    /\ currentQR' = "null"
    /\ connectionAttempts' = 0
    /\ globalQR' = "null"
    /\ UNCHANGED lastError

\* lines 159-169; lines 166-168 arm the session-cleanup timer
AuthFailureHandler ==
    /\ lastError' = "Authentication failed"
    /\ isReady' = FALSE
    /\ isConnecting' = FALSE
    /\ cleanups' = Min(cleanups + 1, MaxCleanups)
    /\ UNCHANGED <<currentQR, connectionAttempts, globalQR>>

DisconnectReasons == {"LOGOUT", "CONFLICT"}

\* variant: every disconnect reason schedules a reconnect
ShouldReconnect_Always(reason) == TRUE

\* line 179
ShouldReconnect(reason) == reason # "LOGOUT"

\* lines 171-185
DisconnectedHandler(reason) ==
    /\ isReady' = FALSE
    /\ isConnecting' = FALSE
    /\ currentQR' = "null"
    /\ lastError' = "Disconnected"
    /\ reconnects' = IF ShouldReconnect(reason)
                     THEN Min(reconnects + 1, MaxReconnects)
                     ELSE reconnects
    /\ UNCHANGED <<connectionAttempts, globalQR>>

\* Some Client object in state from emits an event that takes it to state to:
\* the object of the handle, one an invocation still awaits, or a lost one.
Emit(from, to) ==
    \/ /\ client = from
       /\ client' = to
       /\ UNCHANGED <<calls, lost>>
    \/ /\ \E r \in BagToSet(calls) :
            /\ r.obj = from
            /\ calls' = ReplaceCall(calls, r, [r EXCEPT !.obj = to])
       /\ UNCHANGED <<client, lost>>
    \/ /\ lost[from] > 0
       /\ lost' = IF to \in Alive
                  THEN [lost EXCEPT ![from] = @ - 1, ![to] = @ + 1]
                  ELSE [lost EXCEPT ![from] = @ - 1]
       /\ UNCHANGED <<client, calls>>

\* The transport emits an event on a Client object; the handlers are registered
\* from the object's construction on (lines 135-189).
Qr(qr) ==
    /\ Emit("starting", "starting")
    /\ QrHandler(qr)
    /\ last' = Op("qr", qr)
    /\ UNCHANGED <<dpc, staleTimers, reconnects>>
    /\ UNCHANGED cleanups
    /\ UNCHANGED <<batchVars, formatVars>>

\* lines 155-157: the handler only logs
Authenticated ==
    /\ Emit("starting", "starting")
    /\ last' = Op("authenticated", "none")
    /\ UNCHANGED <<isReady, isConnecting, currentQR, lastError, connectionAttempts,
                   dpc, staleTimers, reconnects>>
    /\ UNCHANGED globalQR
    /\ UNCHANGED cleanups
    /\ UNCHANGED <<batchVars, formatVars>>

Ready ==
    /\ Emit("starting", "ready")
    /\ ReadyHandler
    /\ last' = Op("ready", "none")
    /\ UNCHANGED <<dpc, staleTimers, reconnects>>
    /\ UNCHANGED cleanups
    /\ UNCHANGED <<batchVars, formatVars>>

AuthFailure ==
    /\ Emit("starting", "failed")
    /\ AuthFailureHandler
    /\ last' = Op("auth_failure", "none")
    /\ UNCHANGED <<dpc, staleTimers, reconnects>>
    /\ UNCHANGED <<batchVars, formatVars>>

Disconnected(reason) ==
    /\ Emit("ready", "closed")
    /\ DisconnectedHandler(reason)
    /\ last' = Op("disconnected", reason)
    /\ UNCHANGED <<dpc, staleTimers>>
    /\ UNCHANGED cleanups
    /\ UNCHANGED <<batchVars, formatVars>>

\* lines 181-183: the reconnect timer fires and calls initialize()
ReconnectFire ==
    /\ reconnects > 0
    /\ reconnects' = reconnects - 1
    /\ InitializeEntry("reconnect")
    /\ UNCHANGED <<dpc, staleTimers>>
    /\ UNCHANGED globalQR
    /\ UNCHANGED cleanups
    /\ UNCHANGED <<batchVars, formatVars>>

\* lines 166-168: the session-cleanup timer fires and calls cleanupSession()
\* (lines 52-62), which removes the session storage directory with all it
\* holds, whatever clientState says; the storage belongs to the transport
\* library and is no part of the state
CleanupFire ==
    /\ cleanups > 0
    /\ cleanups' = cleanups - 1
    /\ last' = Op("cleanup", "removed")
    /\ UNCHANGED <<clientState, calls, lost, dpc, staleTimers, reconnects, globalQR>>
    /\ UNCHANGED <<batchVars, formatVars>>

\* ------------------------------------------------------ disconnectWhatsAppWeb
\* lines 474-480: from the call to the await of client.destroy()
Disconnect ==
    /\ dpc = "idle"
    /\ IF client # "null"
       THEN /\ client' = "closed"
            /\ dpc' = "destroy"
            /\ last' = Op("disconnect", "destroying")
       ELSE /\ last' = Op("disconnect", "returned")
            /\ UNCHANGED <<client, dpc>>
    /\ UNCHANGED <<isReady, isConnecting, currentQR, lastError, connectionAttempts,
                   calls, lost, staleTimers, reconnects>>
    /\ UNCHANGED globalQR
    /\ UNCHANGED cleanups
    /\ UNCHANGED <<batchVars, formatVars>>

\* lines 481-486: the await is over
AfterDisconnectDestroy ==
    /\ dpc = "destroy"
    /\ dpc' = "idle"
    /\ client' = "null"
    /\ calls' = DetachCalls(calls, client)
    /\ lost' = DetachLost(calls, client, lost)
    /\ isReady' = FALSE
    /\ isConnecting' = FALSE
    /\ currentQR' = "null"
    /\ lastError' = "null"
    /\ connectionAttempts' = 0
    /\ last' = Op("disconnect", "returned")
    /\ UNCHANGED <<staleTimers, reconnects>>
    /\ UNCHANGED globalQR
    /\ UNCHANGED cleanups
    /\ UNCHANGED <<batchVars, formatVars>>

\* ---------------------------------------------------- resetConnectionAttempts
\* lines 491-494
ResetAttempts ==
    /\ connectionAttempts' = 0
    /\ lastError' = "null"
    /\ last' = Op("resetAttempts", "none")
    /\ UNCHANGED <<client, isReady, isConnecting, currentQR, calls, lost, dpc,
                   staleTimers, reconnects>>
    /\ UNCHANGED globalQR
    /\ UNCHANGED cleanups
    /\ UNCHANGED <<batchVars, formatVars>>

\* lines 64-67: clientState.currentQR || global.currentQRCode || null
getCurrentQRCode ==
    IF currentQR # "null" THEN currentQR
    ELSE IF globalQR # "null" THEN globalQR
    ELSE "null"

\* lines 457-471
getWhatsAppWebStatus ==
    [ready |-> isReady, client |-> client # "null", connecting |-> isConnecting,
     error |-> lastError, qr |-> currentQR]

ConnNext ==
    \/ Initialize
    \/ \E r \in BagToSet(calls) : AfterDestroyOld(r)
    \/ \E r \in BagToSet(calls) : InitResolve(r)
    \/ \E r \in BagToSet(calls) : InitReject(r)
    \/ \E r \in BagToSet(calls) : AfterCatchDestroy(r)
    \/ \E r \in BagToSet(calls) : TimeoutFire(r)
    \/ StaleTimeoutFire
    \/ \E qr \in QRPayloads : Qr(qr)
    \/ Authenticated
    \/ Ready
    \/ AuthFailure
    \/ \E reason \in DisconnectReasons : Disconnected(reason)
    \/ ReconnectFire
    \/ CleanupFire
    \/ Disconnect
    \/ AfterDisconnectDestroy
    \/ ResetAttempts

\* --------------------------------------------------------- formatPhoneNumber
\* what \D does not match
Digits == {"0", "1", "2", "3", "4", "5", "6", "7", "8", "9"}

IsDigit(ch) == ch \in Digits

\* line 236: the length of a number that lacks its country code
LocalNumberLength == 10

\* variant: the country code is never added
formatPhoneNumber_NoPrefix(p) == SelectSeq(p, IsDigit)

\* lines 231-241
formatPhoneNumber(p) ==
    LET cleaned == SelectSeq(p, IsDigit)
    IN IF Len(cleaned) = LocalNumberLength THEN <<"1">> \o cleaned ELSE cleaned

\* the characters phone strings are made of: two digits and a separator
PhoneChars == {"1", "5", "-"}

Phones == UNION {[1..n -> PhoneChars] : n \in 0..MaxPhoneLen}

FormatInit ==
    /\ phone = <<>>
    /\ formatted = <<>>
    /\ fpc = "idle"

\* a caller formats a phone string
FormatPhone ==
    /\ fpc = "idle"
    /\ formatted' = formatPhoneNumber(phone)
    /\ fpc' = "done"
    /\ UNCHANGED phone
    /\ UNCHANGED <<connVars, batchVars>>

\* --------------------------------------------------------- delivery backends
\* What a backend call comes to: raised says whether it rejects, success and
\* error are the MessageResult it returns otherwise (messageId plays no part
\* and is left out), called whether a transport or network call was made.
\* lines 287-290, 333-336
Sent ==
    [raised |-> FALSE, success |-> TRUE, error |-> "none", called |-> TRUE]

\* variant: a backend lets the error through
Caught_Rethrown(e, called) ==
    [raised |-> TRUE, success |-> FALSE, error |-> e, called |-> called]

\* lines 291-297, 337-343: the catch block of a backend, for an error with
\* message e thrown in its try block
Caught(e, called) ==
    [raised |-> FALSE, success |-> FALSE, error |-> e, called |-> called]

\* line 254
CredentialsError == "WhatsApp Business API credentials not configured"
\* line 308
NotReadyError == "WhatsApp Web client not ready. Please initialize first."

\* lines 269-285: fetch rejects, or the provider answers with a non-2xx status
ApiErrors == {"fetch failed", "Failed to send message"}
\* lines 316-330: the transport rejects, or clientState.client is null by the
\* time the send resumes after an await
WebErrors == {"send failed", "Cannot read properties of null"}

\* variant: one of the two credentials is enough
CredentialsConfigured_Either == accessToken \/ phoneNumberId

\* line 253: both credentials are set
CredentialsConfigured == accessToken /\ phoneNumberId

\* lines 244-298
sendMessageUsingBusinessAPI ==
    IF ~CredentialsConfigured
    THEN {Caught(CredentialsError, FALSE)}
    ELSE {Sent} \cup {Caught(e, TRUE) : e \in ApiErrors}

\* variant: the backend looks at the handle only
ClientReady_HandleOnly == client # "null"

\* line 307: the precondition of the automation backend
ClientReady == client # "null" /\ isReady

\* lines 301-344; only a session that is ready delivers
sendMessageUsingWebAutomation ==
    IF ~ClientReady
    THEN {Caught(NotReadyError, FALSE)}
    ELSE (IF client = "ready" THEN {Sent} ELSE {})
            \cup {Caught(e, TRUE) : e \in WebErrors}

\* lines 442-454
sendMessage ==
    IF useBusinessAPI THEN sendMessageUsingBusinessAPI
                      ELSE sendMessageUsingWebAutomation

\* --------------------------------------------------------- sendMessagesBatch
\* lines 357-360: for (i = 0; i < contacts.length; i += batchSize), size >= 1
RECURSIVE Split(_, _)
Split(cs, size) ==
    IF cs = <<>> THEN <<>>
    ELSE LET n == Min(size, Len(cs))
         IN <<SubSeq(cs, 1, n)>> \o Split(SubSeq(cs, n + 1, Len(cs)), size)

\* results.filter(r => r.success === b).length, lines 426-427
Count(res, b) == Cardinality({i \in 1..Len(res) : res[i].success = b})

NoWaits == [message |-> 0, retry |-> 0, batch |-> 0]

BatchInit ==
    /\ contacts = <<>>
    /\ batchSize = 0
    /\ maxRetries = 0
    /\ batches = <<>>
    /\ results = <<>>
    /\ batchIndex = 0
    /\ contactIndex = 0
    /\ attempts = 0
    /\ success = FALSE
    /\ batchLastError = ""
    /\ summary = [total |-> 0, successful |-> 0, failed |-> 0]
    /\ bpc = "idle"
    /\ sends = <<>>
    /\ transportCalls = 0
    /\ waits = NoWaits
    /\ pause = NoWaits

\* the batch locals and parameters an action leaves alone besides those named
batchHistory == <<sends, transportCalls, waits, pause>>

\* lines 347-362: the call; with batchSize = 0 and a contact to split, the loop
\* of line 358 never advances and the call stays there
SendMessagesBatch(cs, size, retries) ==
    /\ bpc = "idle"
    /\ contacts' = cs
    /\ batchSize' = size
    /\ maxRetries' = retries
    /\ results' = <<>>
    /\ batchIndex' = 0
    /\ IF size >= 1 \/ cs = <<>>
       THEN /\ batches' = Split(cs, size)
            /\ bpc' = "batchLoop"
       ELSE /\ batches' = <<>>
            /\ bpc' = "splitting"
    /\ UNCHANGED <<contactIndex, attempts, success, batchLastError, summary>>
    /\ sends' = <<>> /\ transportCalls' = 0 /\ waits' = NoWaits /\ pause' = NoWaits
    /\ UNCHANGED envVars
    /\ UNCHANGED <<connVars, formatVars>>

\* line 364, and lines 426-438 when the loop is over
BatchLoop ==
    /\ bpc = "batchLoop"
    /\ IF batchIndex < Len(batches)
       THEN /\ contactIndex' = 0
            /\ bpc' = "contactLoop"
            /\ UNCHANGED summary
       ELSE /\ summary' = [total |-> Len(contacts),
                           successful |-> Count(results, TRUE),
                           failed |-> Count(results, FALSE)]
            /\ bpc' = "done"
            /\ UNCHANGED contactIndex
    /\ UNCHANGED <<contacts, batchSize, maxRetries, batches, results, batchIndex,
                   attempts, success, batchLastError>>
    /\ UNCHANGED <<batchHistory, envVars>>
    /\ UNCHANGED <<connVars, formatVars>>

\* lines 368-372, and lines 418-423 when the batch is over
ContactLoop ==
    /\ bpc = "contactLoop"
    /\ IF contactIndex < Len(batches[batchIndex + 1])
       THEN /\ attempts' = 0
            /\ success' = FALSE
            /\ batchLastError' = ""
            /\ bpc' = "retryLoop"
            /\ UNCHANGED batchIndex
       ELSE /\ IF batchIndex < Len(batches) - 1
               THEN bpc' = "batchDelay" /\ UNCHANGED batchIndex
               ELSE bpc' = "batchLoop" /\ batchIndex' = batchIndex + 1
            /\ UNCHANGED <<attempts, success, batchLastError>>
    /\ UNCHANGED <<contacts, batchSize, maxRetries, batches, results, contactIndex,
                   summary>>
    /\ UNCHANGED <<batchHistory, envVars>>
    /\ UNCHANGED <<connVars, formatVars>>

\* variant: the retry loop does not look at success
ShouldRetry_IgnoreSuccess == attempts < maxRetries

\* line 374: the condition of the retry loop
ShouldRetry == attempts < maxRetries /\ ~success

\* variant: the synthesized failure forgets the error
FailedResult_NoError ==
    [success |-> FALSE, error |-> "",
     contactId |-> batches[batchIndex + 1][contactIndex + 1]]

\* lines 410-414: the failure result added when every attempt has failed
FailedResult ==
    [success |-> FALSE, error |-> batchLastError,
     contactId |-> batches[batchIndex + 1][contactIndex + 1]]

\* variant: every send is preceded by a delay, the first included
NeedsMessageDelay_Always == TRUE

\* line 379: a delay precedes every send but the one made with results empty
NeedsMessageDelay == Len(results) > 0

\* lines 374-381, and lines 408-415 when the retry loop is over
RetryLoop ==
    /\ bpc = "retryLoop"
    /\ IF ShouldRetry
       THEN /\ attempts' = attempts + 1
            /\ bpc' = IF NeedsMessageDelay THEN "messageDelay" ELSE "send"
            /\ UNCHANGED <<results, contactIndex>>
       ELSE /\ results' =
                 IF ~success
                 THEN Append(results, FailedResult)
                 ELSE results
            /\ contactIndex' = contactIndex + 1
            /\ bpc' = "contactLoop"
            /\ UNCHANGED attempts
    /\ UNCHANGED <<contacts, batchSize, maxRetries, batches, batchIndex, success,
                   batchLastError, summary>>
    /\ UNCHANGED <<batchHistory, envVars>>
    /\ UNCHANGED <<connVars, formatVars>>

\* a delay of the given kind has been sat out
Waited(kind) ==
    /\ waits' = [waits EXCEPT ![kind] = @ + 1]
    /\ pause' = [pause EXCEPT ![kind] = @ + 1]
    /\ UNCHANGED <<sends, transportCalls>>

\* line 380: the delay between messages is over
MessageDelay ==
    /\ bpc = "messageDelay"
    /\ bpc' = "send"
    /\ Waited("message")
    /\ UNCHANGED <<contacts, batchSize, maxRetries, batches, results, batchIndex,
                   contactIndex, attempts, success, batchLastError, summary>>
    /\ UNCHANGED envVars
    /\ UNCHANGED <<connVars, formatVars>>

\* variant: a failed attempt is sent again at once, whatever the count
AfterAttempt_ResendOnFailure(ok) == IF ok THEN "retryLoop" ELSE "send"

\* variant: a failed attempt ends the run
AfterAttempt_AbortOnFailure(ok) == IF ok THEN "retryLoop" ELSE "done"

\* lines 389-405: where the run goes after an attempt that left success = ok
AfterAttempt(ok) ==
    IF ~ok /\ attempts < maxRetries THEN "retryDelay" ELSE "retryLoop"

\* lines 383-405: the sendMessage call comes to result; lines 396-399 when it
\* rejects
Send(result) ==
    /\ bpc = "send"
    /\ IF result.raised
       THEN /\ batchLastError' = result.error
            /\ UNCHANGED <<results, success>>
       ELSE /\ results' = Append(results,
                                 [success |-> result.success, error |-> result.error,
                                  contactId |-> batches[batchIndex + 1][contactIndex + 1]])
            /\ success' = result.success
            /\ batchLastError' = IF result.success THEN batchLastError ELSE result.error
    /\ bpc' = AfterAttempt(success')
    /\ sends' = Append(sends,
                       [contactId |-> batches[batchIndex + 1][contactIndex + 1],
                        success |-> ~result.raised /\ result.success,
                        error |-> result.error,
                        ready |-> client # "null" /\ isReady])
    /\ transportCalls' = IF result.called THEN transportCalls + 1 ELSE transportCalls
    /\ pause' = NoWaits
    /\ UNCHANGED <<contacts, batchSize, maxRetries, batches, batchIndex, contactIndex,
                   attempts, summary, waits>>
    /\ UNCHANGED envVars
    /\ UNCHANGED <<connVars, formatVars>>

\* line 404: the delay before a retry is over
RetryDelay ==
    /\ bpc = "retryDelay"
    /\ bpc' = "retryLoop"
    /\ Waited("retry")
    /\ UNCHANGED <<contacts, batchSize, maxRetries, batches, results, batchIndex,
                   contactIndex, attempts, success, batchLastError, summary>>
    /\ UNCHANGED envVars
    /\ UNCHANGED <<connVars, formatVars>>

\* line 422: the delay between batches is over
BatchDelay ==
    /\ bpc = "batchDelay"
    /\ batchIndex' = batchIndex + 1
    /\ bpc' = "batchLoop"
    /\ Waited("batch")
    /\ UNCHANGED <<contacts, batchSize, maxRetries, batches, results, contactIndex,
                   attempts, success, batchLastError, summary>>
    /\ UNCHANGED envVars
    /\ UNCHANGED <<connVars, formatVars>>

\* contact lists: n contacts with distinct ids
ContactLists == {[i \in 1..n |-> i] : n \in 0..MaxContacts}

\* A dispatch run; the session may drop while it is under way.
BatchNext ==
    \/ \E cs \in ContactLists, size \in 0..MaxBatchSize, retries \in 0..MaxRetries :
          SendMessagesBatch(cs, size, retries)
    \/ BatchLoop
    \/ ContactLoop
    \/ RetryLoop
    \/ MessageDelay
    \/ \E result \in sendMessage : Send(result)
    \/ RetryDelay
    \/ BatchDelay
    \/ \E reason \in DisconnectReasons : Disconnected(reason)

\* the environment of a process that uses the automation backend and has no
\* API credentials
EnvInit ==
    /\ useBusinessAPI = FALSE
    /\ accessToken = FALSE
    /\ phoneNumberId = FALSE

\* the connection manager with a session that is ready: the state after
\* initialize(), the ready event and the return of initialize()
ReadySession ==
    /\ client = "ready"
    /\ isReady = TRUE
    /\ isConnecting = FALSE
    /\ currentQR = "null"
    /\ lastError = "null"
    /\ connectionAttempts = 0
    /\ calls = EmptyBag
    /\ lost = [x \in Alive |-> 0]
    /\ dpc = "idle"
    /\ staleTimers = 0
    /\ reconnects = 0
    /\ globalQR = "null"
    /\ cleanups = 0
    /\ last = Op("initialize", "resolved")

\* A dispatch starts with the API backend selected, either credential set or
\* not (the session then plays no part: none), or with the automation backend
\* selected (the credentials then play no part: unset), the session absent or
\* ready.
BatchSpecInit ==
    /\ BatchInit
    /\ FormatInit
    /\ \/ /\ useBusinessAPI = TRUE
          /\ accessToken \in BOOLEAN
          /\ phoneNumberId \in BOOLEAN
          /\ ConnInit
       \/ /\ EnvInit
          /\ (ConnInit \/ ReadySession)

vars == <<connVars, batchVars, formatVars>>

\* the state after the module is loaded: no session, no batch run
Init == ConnInit /\ BatchInit /\ EnvInit /\ FormatInit

\* the connection manager, no batch under way
Spec == Init /\ [][ConnNext]_vars

\* Timers fire and awaited destroy() calls settle; what the transport, the
\* session-open call and the operator do is up to them.
ConnFairness ==
    /\ WF_vars(\E r \in BagToSet(calls) : TimeoutFire(r))
    /\ WF_vars(StaleTimeoutFire)
    /\ WF_vars(ReconnectFire)
    /\ WF_vars(CleanupFire)
    /\ WF_vars(\E r \in BagToSet(calls) : AfterDestroyOld(r))
    /\ WF_vars(\E r \in BagToSet(calls) : AfterCatchDestroy(r))
    /\ WF_vars(AfterDisconnectDestroy)

FairSpec == Spec /\ ConnFairness

\* one batch run in some environment
BatchSpec == BatchSpecInit /\ [][BatchNext]_vars

\* Each individual send and each delay completes, and the synchronous code
\* between two awaits runs on; whether the session drops is up to the transport.
BatchFairness ==
    /\ WF_vars(BatchLoop)
    /\ WF_vars(ContactLoop)
    /\ WF_vars(RetryLoop)
    /\ WF_vars(MessageDelay)
    /\ WF_vars(\E result \in sendMessage : Send(result))
    /\ WF_vars(RetryDelay)
    /\ WF_vars(BatchDelay)

FairBatchSpec == BatchSpec /\ BatchFairness

\* any phone string of the bounded set is about to be formatted
FormatSpecInit ==
    /\ ConnInit /\ BatchInit /\ EnvInit
    /\ phone \in Phones
    /\ formatted = <<>>
    /\ fpc = "idle"

FormatNext == FormatPhone

\* one formatPhoneNumber call
FormatSpec == FormatSpecInit /\ [][FormatNext]_vars

\* ------------------------------------------------------------ batch claims
\* C1: when sendMessagesBatch completes a run with maxRetries >= 1,
\* summary.total is the number of input contacts and
\* summary.successful + summary.failed = summary.total.
C1_SummaryAddsUp ==
    (bpc = "done" /\ maxRetries >= 1)
        => /\ summary.total = Len(contacts)
           /\ summary.successful + summary.failed = summary.total

\* C2: the results list sendMessagesBatch returns holds exactly one result per
\* input contact: as many entries as contacts, the i-th carrying the id of the
\* i-th contact.
C2_OneResultPerContact ==
    bpc = "done"
        => /\ Len(results) = Len(contacts)
           /\ \A i \in 1..Len(results) : results[i].contactId = contacts[i]

\* the send attempts made for contact c, as indices into sends
AttemptsFor(c) == {i \in 1..Len(sends) : sends[i].contactId = c}

\* C11: no send attempt for a contact follows a successful one for that
\* contact, and no contact gets more than maxRetries attempts: a send that
\* succeeds on attempt k is the k-th and last attempt for its contact.
C11_SuccessEndsRetries ==
    /\ \A i, j \in 1..Len(sends) :
          (i < j /\ sends[i].contactId = sends[j].contactId) => ~sends[i].success
    /\ \A i \in 1..Len(contacts) : Cardinality(AttemptsFor(contacts[i])) <= maxRetries

\* a run has completed in which a contact was delivered to on its second
\* attempt and a later contact was attempted
C11_Witness ==
    /\ bpc = "done"
    /\ \E i \in 2..Len(sends) :
          /\ sends[i].success
          /\ sends[i - 1].contactId = sends[i].contactId
          /\ i < Len(sends)

\* the largest element of a non-empty set of numbers
MaxOf(S) == CHOOSE x \in S : \A y \in S : y <= x

\* the entries of results that carry the id of contact c
ResultsFor(c) == {i \in 1..Len(results) : results[i].contactId = c}

\* C12: when a run has completed, a contact none of whose attempts succeeded
\* got exactly maxRetries attempts, and the result recorded for it last is
\* marked failed and carries the contact's id and, if an attempt was made,
\* the error of the last attempt.
C12_ExhaustedContactFails ==
    bpc = "done" =>
        \A n \in 1..Len(contacts) :
            LET c == contacts[n]
            IN (\A i \in AttemptsFor(c) : ~sends[i].success) =>
                  /\ Cardinality(AttemptsFor(c)) = maxRetries
                  /\ ResultsFor(c) # {}
                  /\ LET r == results[MaxOf(ResultsFor(c))]
                     IN /\ ~r.success
                        /\ r.contactId = c
                        /\ AttemptsFor(c) # {} =>
                              r.error = sends[MaxOf(AttemptsFor(c))].error

\* a run has completed in which the first contact failed twice, with two
\* different errors
C12_Witness ==
    /\ bpc = "done"
    /\ maxRetries = 2
    /\ Len(sends) >= 2
    /\ sends[1].contactId = sends[2].contactId
    /\ ~sends[1].success /\ ~sends[2].success
    /\ sends[1].error # sends[2].error

\* the place of contact c in the contact list
IndexOf(c) == CHOOSE n \in 1..Len(contacts) : contacts[n] = c

\* C13: failed attempts never abort the batch: contacts are attempted in list
\* order, each contact's attempts together, and when a run in which an
\* attempt failed has completed, every contact of the list has been attempted.
C13_FailureDoesNotAbort ==
    /\ \A i, j \in 1..Len(sends) :
          i < j => IndexOf(sends[i].contactId) <= IndexOf(sends[j].contactId)
    /\ (bpc = "done" /\ \E i \in 1..Len(sends) : ~sends[i].success) =>
          \A n \in 1..Len(contacts) : AttemptsFor(contacts[n]) # {}

\* a run has completed in which every attempt for the first contact failed
\* and the last contact of the list was attempted after that
C13_Witness ==
    /\ bpc = "done"
    /\ Len(contacts) >= 2
    /\ maxRetries = 2
    /\ Cardinality(AttemptsFor(contacts[1])) = 2
    /\ \A i \in AttemptsFor(contacts[1]) : ~sends[i].success
    /\ sends[Len(sends)].contactId = contacts[Len(contacts)]

\* a send through the automation backend without a ready session makes no
\* transport call and returns a failure result with the not-ready error
NotReadySendFails ==
    (bpc = "send" /\ bpc' # "send" /\ ~useBusinessAPI /\ (client = "null" \/ ~isReady))
        => /\ transportCalls' = transportCalls
           /\ Len(results') = Len(results) + 1
           /\ ~results'[Len(results')].success
           /\ results'[Len(results')].error = NotReadyError

\* every result of the run is a failure with error e
AllFailedWith(e) == \A i \in 1..Len(results) : ~results[i].success /\ results[i].error = e

\* the automation backend is selected and no attempt of the run found a ready
\* session
NoReadySession == ~useBusinessAPI /\ \A i \in 1..Len(sends) : ~sends[i].ready

\* C14 as stated: a send through the automation backend without a ready
\* session makes no transport call and returns the not-ready failure; a
\* dispatch run without a ready session completes with every result failed
\* with that error.
C14_NotReadyRunAllFailed ==
    /\ [][NotReadySendFails]_vars
    /\ []((bpc = "done" /\ NoReadySession)
              => (transportCalls = 0 /\ AllFailedWith(NotReadyError)))

\* C14 amended: the same, for a dispatch with maxRetries >= 1 (with
\* maxRetries = 0 no send is attempted and every result carries an empty
\* error).
C14_NotReadyAttemptsAllFailed ==
    /\ [][NotReadySendFails]_vars
    /\ []((bpc = "done" /\ NoReadySession)
              => /\ transportCalls = 0
                 /\ maxRetries >= 1 => AllFailedWith(NotReadyError)
                 /\ maxRetries = 0 => AllFailedWith(""))

\* a run over two contacts or more has completed without a ready session,
\* the session having dropped before the first send
C14_Witness ==
    /\ bpc = "done"
    /\ NoReadySession
    /\ client = "closed"
    /\ maxRetries >= 1
    /\ Len(contacts) >= 2
    /\ Len(results) > Len(contacts)

\* C15: neither backend nor sendMessage ever raises: whatever the environment
\* and the session, a call comes to a result, with success false and an error
\* description for every internal error (precondition failure, transport or
\* network error, handle cleared during the send), with success true for a
\* send that went through; so every send attempt of a batch run has its
\* result in results.
C15_BackendsNeverRaise ==
    /\ \A r \in sendMessageUsingBusinessAPI \cup sendMessageUsingWebAutomation \cup sendMessage :
          /\ ~r.raised
          /\ r.success \in BOOLEAN
          /\ r.success => r = Sent
          /\ ~r.success => r.error \notin {"none", ""}
    /\ \A n \in 1..Len(contacts) :
          Cardinality(ResultsFor(contacts[n])) >= Cardinality(AttemptsFor(contacts[n]))

\* a run has completed in which a send found the handle cleared under it, a
\* send failed in the transport and a send went through
C15_Witness ==
    /\ bpc = "done"
    /\ \E i, j, k \in 1..Len(sends) :
          /\ sends[i].error = "Cannot read properties of null"
          /\ sends[j].error = "send failed"
          /\ sends[k].success

\* the API backend is selected and a credential is missing
CredentialsMissing == useBusinessAPI /\ (~accessToken \/ ~phoneNumberId)

\* C16 as stated: with the API backend selected and the access token or the
\* phone-number identifier absent, a dispatch makes no network call and every
\* contact's result is a failure with the credentials-not-configured error.
C16_MissingCredentialsAllFailed ==
    (bpc = "done" /\ CredentialsMissing)
        => /\ transportCalls = 0
           /\ \A n \in 1..Len(contacts) : ResultsFor(contacts[n]) # {}
           /\ AllFailedWith(CredentialsError)

\* C16 amended: the same, for a dispatch with maxRetries >= 1 (with
\* maxRetries = 0 no send is attempted and every result carries an empty
\* error).
C16_MissingCredentialsAttemptsFailed ==
    (bpc = "done" /\ CredentialsMissing)
        => /\ transportCalls = 0
           /\ \A n \in 1..Len(contacts) : ResultsFor(contacts[n]) # {}
           /\ maxRetries >= 1 => AllFailedWith(CredentialsError)
           /\ maxRetries = 0 => AllFailedWith("")

\* a run over two contacts or more has completed with the access token set
\* and the phone-number identifier missing
C16_Witness ==
    /\ bpc = "done"
    /\ useBusinessAPI /\ accessToken /\ ~phoneNumberId
    /\ maxRetries >= 1
    /\ Len(contacts) >= 2
    /\ Len(sends) >= 2

\* n / b rounded up
Ceil(n, b) == (n + b - 1) \div b

\* every contact of the list was delivered to on its first attempt
AllFirstAttemptsSucceeded ==
    /\ Len(sends) = Len(contacts)
    /\ \A i \in 1..Len(sends) : sends[i].success

\* C17: when a run over N >= 1 contacts with batch size B >= 1 has completed
\* and every send succeeded on its first attempt, ceil(N/B) batches were
\* processed, ceil(N/B) - 1 inter-batch waits and N - 1 inter-message waits
\* (and no other wait) were incurred, and the summary is
\* {total: N, successful: N, failed: 0}.
C17_AllSucceedScenario ==
    (bpc = "done" /\ Len(contacts) >= 1 /\ batchSize >= 1 /\ AllFirstAttemptsSucceeded)
        => LET N == Len(contacts)
               B == batchSize
           IN /\ Len(batches) = Ceil(N, B)
              /\ batchIndex = Ceil(N, B)
              /\ waits = [message |-> N - 1, retry |-> 0, batch |-> Ceil(N, B) - 1]
              /\ summary = [total |-> N, successful |-> N, failed |-> 0]

\* a run over two contacts in two batches has completed, every send having
\* succeeded on its first attempt
C17_Witness ==
    /\ bpc = "done"
    /\ Len(contacts) = 2
    /\ Len(batches) = 2
    /\ waits.batch = 1
    /\ AllFirstAttemptsSucceeded

\* C21: for every contact list of N contacts, every batchSize >= 1 and every
\* maxRetries >= 0, provided each send and each delay completes, a
\* sendMessagesBatch call returns; at every moment at most N * maxRetries send
\* attempts have been made, at most maxRetries of them for any one contact.
C21_BatchTerminates ==
    /\ [](batchSize >= 1 =>
             /\ Len(sends) <= Len(contacts) * maxRetries
             /\ \A n \in 1..Len(contacts) :
                    Cardinality(AttemptsFor(contacts[n])) <= maxRetries)
    /\ (bpc # "idle" /\ batchSize >= 1) ~> (bpc = "done")

\* a run over two contacts has returned after every attempt it was allowed:
\* N * maxRetries sends, all failed
C21_Witness ==
    /\ bpc = "done"
    /\ batchSize >= 1
    /\ Len(contacts) = 2
    /\ maxRetries = 2
    /\ Len(sends) = Len(contacts) * maxRetries

\* C20: pacing is uniform: no delay precedes the very first send attempt, and
\* between two consecutive send attempts exactly one delayBetweenMessages
\* delay is sat out (be the second attempt a retry or the next contact's
\* first), plus the inter-batch delay when the second attempt opens a batch.
C20_UniformPacing ==
    bpc = "send" =>
        IF sends = <<>>
        THEN pause = NoWaits
        ELSE /\ pause.message + pause.retry = 1
             /\ pause.batch = IF contactIndex = 0 /\ attempts = 1 THEN 1 ELSE 0

\* ------------------------------------------------------ connection claims
\* the initial disconnected snapshot of clientState
InitialSnapshot ==
    /\ client = "null"
    /\ isReady = FALSE
    /\ isConnecting = FALSE
    /\ lastError = "null"
    /\ currentQR = "null"
    /\ connectionAttempts = 0

\* nothing but the history changes
NothingChanges ==
    UNCHANGED <<clientState, calls, lost, dpc, staleTimers, reconnects, globalQR,
                cleanups>>

\* C3: in every reachable state the ready flag and the connecting flag are
\* never both true.
C3_ReadyConnectingExclusive == ~(isReady /\ isConnecting)

\* C4: an initialize() call made while connecting is true, or while a session
\* is present and ready, returns without opening a session, without
\* incrementing the attempt counter and without changing any state: no new
\* invocation is suspended, no Client object is constructed.
C4_InitializeIdempotent ==
    [][(Initialize /\ (isConnecting \/ (client # "null" /\ isReady)))
          => (NothingChanges /\ last' = Op("initialize", "noop"))]_vars

\* an initialize() call has just returned as a no-op while the one attempt
\* that set connecting is still suspended in its session-open call
C4_Witness ==
    /\ last = Op("initialize", "noop")
    /\ isConnecting
    /\ NumCalls(calls) = 1
    /\ \E r \in BagToSet(calls) : r.pc = "init"

\* no Client object is still on its way to ready
NoAttemptUnderWay ==
    /\ ~isConnecting
    /\ client # "starting"
    /\ \A r \in BagToSet(calls) : r.obj # "starting"
    /\ lost["starting"] = 0

\* C5 as stated: once the counter is at MAX_CONNECTION_ATTEMPTS and every
\* attempt has failed, every initialize() call fails with ConnectionExhausted
\* and changes nothing, and the counter stays at the ceiling until
\* resetAttempts() runs.
C5_ExhaustedUntilReset ==
    [][/\ (Initialize /\ connectionAttempts >= MAX_CONNECTION_ATTEMPTS /\ NoAttemptUnderWay)
            => (NothingChanges /\ last' = Op("initialize", "exhausted"))
       /\ (connectionAttempts >= MAX_CONNECTION_ATTEMPTS /\ NoAttemptUnderWay
              /\ connectionAttempts' < MAX_CONNECTION_ATTEMPTS)
            => ResetAttempts]_vars

\* C5 amended: while the counter is at MAX_CONNECTION_ATTEMPTS an initialize()
\* call opens no session and changes no state; it fails with
\* ConnectionExhausted unless it returns silently because an attempt is
\* connecting or a session is ready. The counter leaves the ceiling only by
\* resetAttempts(), by a disconnect() that held a session handle, or by a ready
\* event; with the counter below the ceiling, nothing connecting and nothing
\* ready, initialize() starts a new attempt.
C5_ExhaustedUntilCounterReset ==
    [][/\ (Initialize /\ connectionAttempts >= MAX_CONNECTION_ATTEMPTS)
            => /\ NothingChanges
               /\ last' = IF isConnecting \/ (client # "null" /\ isReady)
                          THEN Op("initialize", "noop")
                          ELSE Op("initialize", "exhausted")
       /\ (connectionAttempts >= MAX_CONNECTION_ATTEMPTS
              /\ connectionAttempts' < MAX_CONNECTION_ATTEMPTS)
            => (ResetAttempts \/ AfterDisconnectDestroy \/ Ready)
       /\ (Initialize /\ connectionAttempts < MAX_CONNECTION_ATTEMPTS
              /\ ~isConnecting /\ ~(client # "null" /\ isReady))
            => /\ last' = Op("initialize", "started")
               /\ isConnecting'
               /\ connectionAttempts' = connectionAttempts + 1]_vars

\* an initialize() call has just failed with ConnectionExhausted
C5_Witness ==
    /\ last = Op("initialize", "exhausted")
    /\ connectionAttempts = MAX_CONNECTION_ATTEMPTS

\* C6: in every reachable state in which ready is true the attempt counter is
\* 0 (the ready handler sets it to 0).
C6_ReadyMeansNoAttempts == isReady => connectionAttempts = 0

\* C7: after disconnect() returns, the connection state equals the initial
\* disconnected snapshot.
C7_DisconnectResets == last = Op("disconnect", "returned") => InitialSnapshot

\* C8: when an initialize() call fails with a session-open error, at the
\* moment the error reaches the caller the manager holds no session handle,
\* connecting is false, ready is false and the last error is recorded.
C8_FailedAttemptLeavesNoSession ==
    last = Op("initialize", "rejected")
        => (client = "null" /\ ~isConnecting /\ ~isReady /\ lastError # "null")

\* C9: no attempt stays in the connecting state forever: an attempt that does
\* not reach ready is abandoned by its startup timeout.
C9_ConnectingEnds == isConnecting ~> ~isConnecting

\* C10 as stated: a disconnected event leaves the manager not-ready and
\* not-connecting; unless the reason is LOGOUT a reconnect is scheduled, and
\* when its backoff elapses a new session-open attempt is started; after
\* LOGOUT nothing is scheduled.
C10_ReconnectStartsAttempt ==
    [][/\ \A reason \in DisconnectReasons :
            Disconnected(reason) =>
                /\ ~isReady' /\ ~isConnecting'
                /\ IF reason = "LOGOUT" THEN reconnects' = reconnects ELSE reconnects' > 0
       /\ ReconnectFire => last' = Op("reconnect", "started")]_vars

\* C10 amended: when the backoff elapses initialize() is called without any
\* operator call; it starts a new session-open attempt unless by then an
\* attempt is connecting, a session is ready, or the attempt counter is at
\* MAX_CONNECTION_ATTEMPTS, and then it changes nothing.
C10_ReconnectCallsInitialize ==
    [][/\ \A reason \in DisconnectReasons :
            Disconnected(reason) =>
                /\ ~isReady' /\ ~isConnecting'
                /\ IF reason = "LOGOUT" THEN reconnects' = reconnects ELSE reconnects' > 0
       /\ ReconnectFire =>
            IF isConnecting \/ (client # "null" /\ isReady)
               \/ connectionAttempts >= MAX_CONNECTION_ATTEMPTS
            THEN /\ UNCHANGED <<clientState, calls, lost, dpc, staleTimers>>
                 /\ last'.op = "reconnect" /\ last'.res \in {"noop", "exhausted"}
            ELSE /\ last' = Op("reconnect", "started")
                 /\ isConnecting'
                 /\ connectionAttempts' = connectionAttempts + 1]_vars

\* the reconnect timer of a dropped session has just started a new attempt
C10_Witness ==
    /\ last = Op("reconnect", "started")
    /\ isConnecting
    /\ lastError = "null"

\* the initialize() invocations suspended in their session-open call (line 206)
SessionOpensInFlight ==
    LET open == {r \in BagToSet(calls) : r.pc = "init"}
    IN IF open = {} THEN 0 ELSE BagCardinality([r \in open |-> CopiesIn(r, calls)])

\* C22: the cleanup paths of an attempt affect that attempt only: the startup
\* timer of an invocation that has returned, firing after a later initialize()
\* has started a new attempt, leaves the connecting flag, the session handle
\* and the session of that attempt alone; so does the failure handler of an
\* earlier invocation that resumes while a newer attempt is connecting; and at
\* most one session-open call is in flight at any time.
C22_CleanupOwnAttemptOnly ==
    /\ [][/\ StaleTimeoutFire => UNCHANGED <<isConnecting, client, calls, lastError>>
          /\ \A r \in BagToSet(calls) :
                (AfterCatchDestroy(r) /\ isConnecting) => UNCHANGED client]_vars
    /\ [](SessionOpensInFlight <= 1)

\* C23: after disconnect() has returned the manager stays disconnected until
\* initialize() is called explicitly: a reconnect timer that a disconnected
\* event armed earlier and that fires right after disconnect() has returned
\* opens no session and changes nothing.
C23_DisconnectCancelsReconnect ==
    [][(ReconnectFire /\ last = Op("disconnect", "returned"))
          => (UNCHANGED <<clientState, calls, lost>> /\ InitialSnapshot')]_vars

\* C24: the session-storage cleanup that an auth_failure event schedules
\* never removes the storage while a session is connecting or ready: when the
\* cleanup timer fires, no attempt is connecting and no session is ready, so
\* the storage of an attempt started since the auth_failure is left alone.
C24_CleanupSparesLiveSession ==
    [][CleanupFire => ~(isConnecting \/ isReady)]_vars

\* ------------------------------------------------------ formatting claims
\* the places of the digits of string p
DigitPlaces(p) == {i \in 1..Len(p) : IsDigit(p[i])}

\* the place in p of its k-th digit
PlaceOfDigit(p, k) ==
    CHOOSE i \in DigitPlaces(p) : Cardinality({j \in DigitPlaces(p) : j <= i}) = k

\* out is p with every non-digit character removed
IsStripped(out, p) ==
    /\ Len(out) = Cardinality(DigitPlaces(p))
    /\ \A k \in 1..Len(out) : out[k] = p[PlaceOfDigit(p, k)]

\* C19: formatPhoneNumber returns its argument with every non-digit character
\* removed, prefixed with the digit 1 exactly when 10 digits remain; the value
\* returned holds digits only, and formatting it again returns it unchanged.
C19_FormatPhoneNumber ==
    fpc = "done" =>
        /\ IF Cardinality(DigitPlaces(phone)) = 10
           THEN /\ formatted # <<>>
                /\ Head(formatted) = "1"
                /\ IsStripped(Tail(formatted), phone)
           ELSE IsStripped(formatted, phone)
        /\ \A k \in 1..Len(formatted) : IsDigit(formatted[k])
        /\ formatPhoneNumber(formatted) = formatted

\* a string with separators and exactly 10 digits has been formatted
C19_Witness ==
    /\ fpc = "done"
    /\ Cardinality(DigitPlaces(phone)) = 10
    /\ Len(phone) = 11
    /\ phone[1] = "5"
    /\ Len(formatted) = 11

\* C18: getCurrentQRCode() returns the credential that is current, none when
\* none is: it always agrees with the credential getWhatsAppWebStatus()
\* reports, so after the credential has been cleared it returns none until a
\* new qr event arrives.
C18_CredentialAgreesWithStatus == getCurrentQRCode = getWhatsAppWebStatus.qr

====
